---- MODULE Spec2Model ----
(***************************************************************************)
(* Model of github.com/syke99/trier (src/trier.go).                        *)
(*                                                                         *)
(* A Trier holds one field, err *error.  The field is either the nil       *)
(* pointer or points at an error interface value, which may itself be the  *)
(* nil error.  The pointer is modelled as a sequence of length 0 or 1:     *)
(* <<>> is the nil pointer, <<e>> points at the error value e.             *)
(*                                                                         *)
(* The text of an error (its Error() string) is modelled as the sequence   *)
(* of its lines: <<"a", "b">> stands for "a\nb".                           *)
(***************************************************************************)
EXTENDS Integers, Sequences, FiniteSets, TLC

(* ---------------- bounds ---------------- *)
\* largest retry limit tried, and longest scripted unit
MaxLimit == 2
\* largest error value (number of nodes) the model lets an operation build
MaxErrSize == 3

\* the counter of unit invocations saturates here (unbounded retry loops)
MaxCalls == MaxLimit + 1

(* ---------------- error values ---------------- *)
\* messages of the units of trier_test.go
Msgs == {"failed passOrFail", "failedIfString"}

\* the nil error interface value
NilErr == [kind |-> "nil"]

\* errors.New(m)
New(m) == [kind |-> "new", msg |-> m]

\* the error of the backoff methods for a limit <= 0
ConfigErr == New("retry backoff attempted with limit less than or equal to zero")

\* what a unit can return
Outcomes == {NilErr} \cup {New(m) : m \in Msgs}

\* errors.Join(a, b): nil values are discarded, nil if nothing is left,
\* otherwise a fresh joinError holding the rest in argument order
Join(a, b) ==
    LET errs == SelectSeq(<<a, b>>, LAMBDA e : e # NilErr)
    IN  IF errs = <<>> THEN NilErr ELSE [kind |-> "join", errs |-> errs]

\* the caller's transforms (errFn): "wrap" returns a new error that puts a
\* context line in front of the text of the one it is given
ErrFns == {"wrap"}

ApplyErrFn(f, e) == [kind |-> f, inner |-> e]

RECURSIVE ErrorText(_)
\* e.Error() as a sequence of lines (undefined on the nil error in Go)
ErrorText(e) ==
    CASE e.kind = "new"  -> <<e.msg>>
      [] e.kind = "join" -> IF Len(e.errs) = 1
                            THEN ErrorText(e.errs[1])
                            ELSE ErrorText(e.errs[1]) \o ErrorText(e.errs[2])
      [] e.kind = "wrap" -> IF e.inner = NilErr
                            THEN <<"ctx">>
                            ELSE <<"ctx">> \o ErrorText(e.inner)
      [] OTHER           -> <<>>

RECURSIVE Size(_)
\* number of error objects an error value is made of
Size(e) ==
    CASE e.kind = "new"  -> 1
      [] e.kind = "join" -> IF Len(e.errs) = 1
                            THEN 1 + Size(e.errs[1])
                            ELSE 1 + Size(e.errs[1]) + Size(e.errs[2])
      [] e.kind = "wrap" -> 1 + Size(e.inner)
      [] OTHER           -> 0

\* s occurs in t as a run of consecutive lines
Contains(t, s) ==
    \E k \in 0..(Len(t) - Len(s)) :
        \A j \in 1..Len(s) : t[k + j] = s[j]

(* ---------------- units of work ---------------- *)
\* A unit is what fn returns on its successive invocations: seq[j] on the
\* j-th one while the script lasts, rest ever after.

\* units that return the same thing on every invocation
ConstUnits == {[seq |-> <<>>, rest |-> r] : r \in Outcomes}

\* the failure a retried unit returns when its j-th invocation fails: the
\* two messages take turns, so that consecutive failures differ
FailAt(j) == New(IF j % 2 = 1 THEN "failed passOrFail" ELSE "failedIfString")

RECURSIVE Scripts(_)
\* the scripts of length n: the j-th invocation succeeds or fails
Scripts(n) ==
    IF n = 0 THEN {<<>>}
    ELSE {Append(s, x) : s \in Scripts(n - 1), x \in {NilErr, FailAt(n)}}

\* retried units: the first MaxLimit results are scripted
Units ==
    {[seq |-> s, rest |-> r] :
        s \in Scripts(MaxLimit), r \in {NilErr, FailAt(MaxLimit + 1)}}

\* retry limits tried
Limits == 0..MaxLimit

\* fn(args...) on its j-th invocation
Invoke(u, j) == IF j <= Len(u.seq) THEN u.seq[j] ELSE u.rest

NoUnit == [seq |-> <<>>, rest |-> NilErr]

(* ---------------- state ---------------- *)
VARIABLES
    err,        \* Trier.err: <<>> nil pointer, <<e>> pointer to e
    pc,         \* "ready" between calls, "loop" inside a retry loop, "panicked"
    op,         \* the method running now or, when ready, the last one called
    nilled,     \* <<s>>: the call before op was Nil, called on slot s
    limit,      \* limit argument of the retry call
    errFn,      \* errFn argument of the call, "none" if it takes none
    fn,         \* fn argument of the call
    i,          \* loop variable of the retry loop
    pre,        \* Trier.err when op was called
    calls,      \* invocations of fn by op so far
    outs,       \* what those invocations returned, in order
    events,     \* fn and backoff invocations of op, in order
    xfs,        \* the errors op has passed to errFn, in order
    ret,        \* <<v>>: op is Err and it returned v
    tryOnly,    \* only Try (and Err) has been called on this Trier
    firstFail,  \* while tryOnly, <<e>>: the first failure a unit returned
    lateCall    \* while tryOnly: a unit was invoked after firstFail was set

vars == <<err, pc, op, nilled, limit, errFn, fn, i, pre, calls, outs, events,
          xfs, ret, tryOnly, firstFail, lateCall>>

\* NewTrier: &Trier{} has a nil err pointer
Init ==
    /\ err = <<>>
    /\ pc = "ready"
    /\ op = "NewTrier"
    /\ nilled = <<>>
    /\ limit = 0
    /\ errFn = "none"
    /\ fn = NoUnit
    /\ i = 0
    /\ pre = <<>>
    /\ calls = 0
    /\ outs = <<>>
    /\ events = <<>>
    /\ xfs = <<>>
    /\ ret = <<>>
    /\ tryOnly = TRUE
    /\ firstFail = <<>>
    /\ lateCall = FALSE

\* the slot is small enough for the model to hold
Fits(slot) == IF slot = <<>> THEN TRUE ELSE Size(slot[1]) <= MaxErrSize

\* bookkeeping common to every call: which method, with what, from where
Enter(name, lim, f, u) ==
    /\ pc = "ready"
    /\ op' = name
    /\ nilled' = IF op = "Nil" THEN <<pre>> ELSE <<>>
    /\ limit' = lim
    /\ errFn' = f
    /\ fn' = u
    /\ pre' = err
    /\ i' = 0

\* the call invoked nothing
NoCalls ==
    /\ calls' = 0
    /\ outs' = <<>>
    /\ events' = <<>>

\* the call invoked fn once, which returned r
OneCall(r) ==
    /\ calls' = 1
    /\ outs' = <<r>>
    /\ events' = << <<"fn", 0>> >>

\* a method other than Try was called
NotTryOnly ==
    /\ tryOnly' = FALSE
    /\ firstFail' = <<>>
    /\ lateCall' = FALSE

(* ---------------- Try ---------------- *)
\* Try without its check for an existing error
TryNoGuard(u) ==
    /\ Enter("Try", 0, "none", u)
    /\ LET r == Invoke(u, 1)
       IN  /\ err' = IF r # NilErr THEN <<r>> ELSE err
           /\ OneCall(r)
           /\ firstFail' = IF firstFail = <<>> /\ r # NilErr THEN <<r>> ELSE firstFail
           /\ lateCall' = (lateCall \/ firstFail # <<>>)
    /\ ret' = <<>>
    /\ xfs' = <<>>
    /\ UNCHANGED <<pc, tryOnly>>

Try(u) ==
    /\ Enter("Try", 0, "none", u)
    /\ IF err # <<>>
       THEN /\ NoCalls
            /\ UNCHANGED <<err, firstFail, lateCall>>
       ELSE LET r == Invoke(u, 1)
            IN  /\ err' = IF r # NilErr THEN <<r>> ELSE err
                /\ OneCall(r)
                /\ firstFail' = IF firstFail = <<>> /\ r # NilErr THEN <<r>> ELSE firstFail
                /\ lateCall' = (lateCall \/ firstFail # <<>>)
    /\ ret' = <<>>
    /\ xfs' = <<>>
    /\ UNCHANGED <<pc, tryOnly>>

(* ---------------- TryIfErr ---------------- *)
TryIfErr(f, u) ==
    /\ Enter("TryIfErr", 0, f, u)
    /\ IF err # <<>>
       THEN /\ NoCalls
            /\ xfs' = <<>>
            /\ UNCHANGED err
       ELSE LET r == Invoke(u, 1)
                stored == IF r # NilErr THEN <<r>> ELSE err
            IN  /\ err' = IF stored # <<>>
                          THEN <<ApplyErrFn(f, stored[1])>>
                          ELSE stored
                /\ OneCall(r)
                /\ xfs' = IF stored # <<>> THEN <<stored[1]>> ELSE <<>>
    /\ Fits(err')
    /\ NotTryOnly
    /\ ret' = <<>>
    /\ UNCHANGED pc

(* ---------------- TryJoin ---------------- *)
\* TryJoin that skips its unit when an error exists, as Try does
TryJoinGuarded(u) ==
    /\ Enter("TryJoin", 0, "none", u)
    /\ IF err # <<>>
       THEN /\ NoCalls
            /\ UNCHANGED err
       ELSE /\ err' = <<Invoke(u, 1)>>
            /\ OneCall(Invoke(u, 1))
    /\ xfs' = <<>>
    /\ NotTryOnly
    /\ ret' = <<>>
    /\ UNCHANGED pc

\* TryJoin that stores what its unit returned over an existing error
TryJoinOverwrite(u) ==
    /\ Enter("TryJoin", 0, "none", u)
    /\ err' = <<Invoke(u, 1)>>
    /\ OneCall(Invoke(u, 1))
    /\ xfs' = <<>>
    /\ NotTryOnly
    /\ ret' = <<>>
    /\ UNCHANGED pc

TryJoin(u) ==
    /\ Enter("TryJoin", 0, "none", u)
    /\ LET r == Invoke(u, 1)
       IN  /\ err' = IF err # <<>> THEN <<Join(err[1], r)>> ELSE <<r>>
           /\ OneCall(r)
    /\ xfs' = <<>>
    /\ Fits(err')
    /\ NotTryOnly
    /\ ret' = <<>>
    /\ UNCHANGED pc

(* ---------------- the retry family ---------------- *)
\* fn is invoked once more and returns r
Invoked(r) ==
    /\ calls' = IF calls < MaxCalls THEN calls + 1 ELSE calls
    /\ outs' = IF calls < MaxCalls THEN Append(outs, r) ELSE outs
    /\ events' = IF calls < MaxCalls THEN Append(events, <<"fn", i>>) ELSE events

\* fn is invoked once more and returns r, then backoff(i) is slept
InvokedThenBackoff(r) ==
    /\ calls' = IF calls < MaxCalls THEN calls + 1 ELSE calls
    /\ outs' = IF calls < MaxCalls THEN Append(outs, r) ELSE outs
    /\ events' = IF calls < MaxCalls
                 THEN events \o << <<"fn", i>>, <<"backoff", i>> >>
                 ELSE events

\* the next result of fn
NextResult == Invoke(fn, IF calls < MaxCalls THEN calls + 1 ELSE MaxCalls)

\* entry of a retry method that goes into the loop whatever the slot holds
EnterRetryNoGuard(name, lim, f, u) ==
    /\ Enter(name, lim, f, u)
    /\ pc' = "loop"
    /\ NoCalls
    /\ xfs' = <<>>
    /\ ret' = <<>>
    /\ NotTryOnly
    /\ UNCHANGED err

\* entry of a retry method: return at once on an existing error, otherwise
\* go into the loop
EnterRetry(name, lim, f, u) ==
    /\ Enter(name, lim, f, u)
    /\ pc' = IF err # <<>> THEN "ready" ELSE "loop"
    /\ NoCalls
    /\ xfs' = <<>>
    /\ ret' = <<>>
    /\ NotTryOnly
    /\ UNCHANGED err

\* one pass through `for { err := fn(args...); if err == nil { break } }`
ForeverIter ==
    /\ limit <= 0
    /\ Invoked(NextResult)
    /\ pc' = IF NextResult = NilErr THEN "ready" ELSE "loop"
    /\ UNCHANGED <<err, i, xfs>>

\* the failure as it goes into errors.Join: errFn(err) in the IfErr methods,
\* err in the others
Joined(e) == IF errFn = "none" THEN e ELSE ApplyErrFn(errFn, e)

\* one pass through the body of `for i := 0; i < limit; i++`, where a failure
\* e of fn is stored as *t.err = errors.Join(*t.err, e) or, on a nil t.err,
\* as *t.err = e: a write through the nil pointer, which panics
BoundedIter ==
    /\ limit > 0
    /\ IF NextResult = NilErr
       THEN /\ pc' = "ready"
            /\ UNCHANGED <<err, i, xfs>>
       ELSE IF err # <<>>
            THEN /\ err' = <<Join(err[1], Joined(NextResult))>>
                 /\ xfs' = IF errFn = "none" THEN xfs ELSE Append(xfs, NextResult)
                 /\ i' = i + 1
                 /\ pc' = IF i + 1 < limit THEN "loop" ELSE "ready"
            ELSE /\ pc' = "panicked"
                 /\ UNCHANGED <<err, i, xfs>>

\* the part of the state no loop iteration touches
LoopFrame == UNCHANGED <<op, nilled, limit, errFn, fn, pre, ret, tryOnly, firstFail, lateCall>>

TryRetry(lim, u) ==
    /\ lim \in Limits
    /\ EnterRetry("TryRetry", lim, "none", u)

TryRetryIter ==
    /\ pc = "loop"
    /\ op = "TryRetry"
    /\ \/ ForeverIter
       \/ BoundedIter /\ Invoked(NextResult)
    /\ LoopFrame

TryRetryIfErr(lim, f, u) ==
    /\ lim \in Limits
    /\ EnterRetry("TryRetryIfErr", lim, f, u)

TryRetryIfErrIter ==
    /\ pc = "loop"
    /\ op = "TryRetryIfErr"
    /\ \/ ForeverIter
       \/ BoundedIter /\ Invoked(NextResult)
    /\ LoopFrame

\* entry of a backoff retry method that looks at the limit before it looks
\* at the slot, and joins the configuration error with an existing error
EnterBackoffLimitFirst(name, lim, f, u) ==
    /\ Enter(name, lim, f, u)
    /\ IF lim <= 0
       THEN IF err # <<>>
            THEN /\ err' = <<Join(ConfigErr, err[1])>>
                 /\ pc' = "ready"
            ELSE /\ pc' = "panicked"
                 /\ UNCHANGED err
       ELSE /\ pc' = IF err # <<>> THEN "ready" ELSE "loop"
            /\ UNCHANGED err
    /\ Fits(err')
    /\ NoCalls
    /\ xfs' = <<>>
    /\ ret' = <<>>
    /\ NotTryOnly

\* entry of a backoff retry method: as EnterRetry, but a limit <= 0 stores
\* the configuration error with *t.err = errors.New(...), through a t.err
\* that is nil whenever this line is reached
EnterBackoff(name, lim, f, u) ==
    /\ Enter(name, lim, f, u)
    /\ pc' = IF err # <<>> THEN "ready"
             ELSE IF lim <= 0 THEN "panicked"
             ELSE "loop"
    /\ NoCalls
    /\ xfs' = <<>>
    /\ ret' = <<>>
    /\ NotTryOnly
    /\ UNCHANGED err

\* a loop pass of the backoff methods: time.Sleep(backoff(i)) follows every
\* failure that was stored
BackoffIter ==
    /\ BoundedIter
    /\ IF NextResult # NilErr /\ err # <<>>
       THEN InvokedThenBackoff(NextResult)
       ELSE Invoked(NextResult)

TryRetryBackoff(lim, u) ==
    /\ lim \in Limits
    /\ EnterBackoff("TryRetryBackoff", lim, "none", u)

TryRetryBackoffIter ==
    /\ pc = "loop"
    /\ op = "TryRetryBackoff"
    /\ BackoffIter
    /\ LoopFrame

TryRetryBackoffIfErr(lim, f, u) ==
    /\ lim \in Limits
    /\ EnterBackoff("TryRetryBackoffIfErr", lim, f, u)

TryRetryBackoffIfErrIter ==
    /\ pc = "loop"
    /\ op = "TryRetryBackoffIfErr"
    /\ BackoffIter
    /\ LoopFrame

(* ---------------- IfErr, Nil, Err ---------------- *)
IfErr(f) ==
    /\ Enter("IfErr", 0, f, NoUnit)
    /\ err' = IF err # <<>> THEN <<ApplyErrFn(f, err[1])>> ELSE err
    /\ xfs' = IF err # <<>> THEN <<err[1]>> ELSE <<>>
    /\ Fits(err')
    /\ NoCalls
    /\ NotTryOnly
    /\ ret' = <<>>
    /\ UNCHANGED pc

Nil ==
    /\ Enter("Nil", 0, "none", NoUnit)
    /\ err' = <<>>
    /\ NoCalls
    /\ xfs' = <<>>
    /\ NotTryOnly
    /\ ret' = <<>>
    /\ UNCHANGED pc

\* what Err() does with the slot: dereferencing the nil pointer panics
Panic == [kind |-> "panic"]

ErrOutcome(slot) == IF slot = <<>> THEN Panic ELSE slot[1]

Err ==
    /\ Enter("Err", 0, "none", NoUnit)
    /\ IF ErrOutcome(err) = Panic
       THEN /\ pc' = "panicked"
            /\ ret' = <<>>
       ELSE /\ ret' = <<ErrOutcome(err)>>
            /\ UNCHANGED pc
    /\ NoCalls
    /\ xfs' = <<>>
    /\ UNCHANGED <<err, tryOnly, firstFail, lateCall>>

Next ==
    \/ \E lim \in Limits, u \in Units : TryRetry(lim, u)
    \/ TryRetryIter
    \/ \E lim \in Limits, f \in ErrFns, u \in Units : TryRetryIfErr(lim, f, u)
    \/ TryRetryIfErrIter
    \/ \E lim \in Limits, u \in Units : TryRetryBackoff(lim, u)
    \/ TryRetryBackoffIter
    \/ \E lim \in Limits, f \in ErrFns, u \in Units : TryRetryBackoffIfErr(lim, f, u)
    \/ TryRetryBackoffIfErrIter
    \/ \E u \in ConstUnits : Try(u)
    \/ \E f \in ErrFns, u \in ConstUnits : TryIfErr(f, u)
    \/ \E u \in ConstUnits : TryJoin(u)
    \/ \E f \in ErrFns : IfErr(f)
    \/ Nil
    \/ Err

Spec == Init /\ [][Next]_vars

(* ---------------- vocabulary of the properties ---------------- *)
\* a failure is pending in the slot: Err() would return a non-nil error
Pending(slot) == IF slot = <<>> THEN FALSE ELSE slot[1] # NilErr

\* the methods that skip their unit on an existing error
AttemptFamily ==
    {"Try", "TryIfErr", "TryRetry", "TryRetryIfErr",
     "TryRetryBackoff", "TryRetryBackoffIfErr"}

\* what the unit of the call returns the first time it is invoked
FirstResult == Invoke(fn, 1)

\* the unit fails on its first k invocations and succeeds on the next
FailsThenSucceeds(u, k) ==
    /\ \A j \in 1..k : Invoke(u, j) # NilErr
    /\ Invoke(u, k + 1) = NilErr

\* the unit fails on each of its first n invocations
FailsFirst(u, n) == \A j \in 1..n : Invoke(u, j) # NilErr

RECURSIVE TextsInOrder(_, _)
\* the messages of the first n results of the unit, oldest first
TextsInOrder(u, n) ==
    IF n = 0 THEN <<>>
    ELSE TextsInOrder(u, n - 1) \o ErrorText(Invoke(u, n))

(* ---------------- properties ---------------- *)

\* C1: while a failure is pending, a call of Try, TryIfErr, TryRetry,
\* TryRetryIfErr, TryRetryBackoff or TryRetryBackoffIfErr, with any limit and
\* any unit, returns without invoking its unit and leaves the slot, and so
\* what Err() returns, as it was.  It holds of every call in every reachable
\* state, hence of any number of such calls in a row.
C1_ShortCircuit ==
    (op \in AttemptFamily /\ Pending(pre)) =>
        /\ pc = "ready"
        /\ calls = 0
        /\ events = <<>>
        /\ err = pre
        /\ ErrOutcome(err) = ErrOutcome(pre)

\* a retry call whose unit would fail was skipped on a pending failure
C1_Witness ==
    /\ op = "TryRetryBackoffIfErr"
    /\ pc = "ready"
    /\ Pending(pre)
    /\ limit > 0
    /\ FirstResult # NilErr
    /\ calls = 0
    /\ err = pre

\* C2: on a chain with no pending failure Try invokes its unit exactly once;
\* if the unit fails with e, Err() then returns e, and if it succeeds there
\* is still no pending failure.
C2_AttemptInvokesOnce ==
    (op = "Try" /\ ~Pending(pre)) =>
        /\ pc = "ready"
        /\ calls = 1
        /\ (FirstResult # NilErr => ErrOutcome(err) = FirstResult)
        /\ (FirstResult = NilErr => ~Pending(err))

\* C3: after any sequence of Try calls on a new Trier in which a unit failed,
\* Err() returns the failure of the first unit that failed, and no unit has
\* been invoked after that one.
C3_FirstFailureWins ==
    (tryOnly /\ firstFail # <<>>) =>
        /\ ErrOutcome(err) = firstFail[1]
        /\ ~lateCall

\* a Try whose unit would fail with another message came after the first
\* failure
C3_Witness ==
    /\ tryOnly
    /\ firstFail # <<>>
    /\ op = "Try"
    /\ Pending(pre)
    /\ FirstResult # NilErr
    /\ FirstResult # firstFail[1]
    /\ ErrOutcome(err) = firstFail[1]

\* C4: Err() called while no failure is pending, right after NewTrier
\* included, returns the nil error and does not panic.
C4_FailureIsTotal ==
    (op = "Err" /\ ~Pending(pre)) =>
        /\ pc # "panicked"
        /\ ret = <<NilErr>>

\* C5: whatever failure was pending, Nil() followed by Try with a succeeding
\* unit leaves Err() returning the nil error, without a panic.
C5_ResetThenAttempt ==
    (/\ op = "Try"
     /\ nilled # <<>>
     /\ Pending(nilled[1])
     /\ FirstResult = NilErr) =>
        ErrOutcome(err) = NilErr

\* C6: TryJoin invokes its unit exactly once in every state; when a failure p
\* is pending and the unit fails with e, the slot then holds a joined error
\* whose text contains the text of p and the text of e.
C6_JoinAlwaysInvokes ==
    op = "TryJoin" =>
        /\ calls = 1
        /\ outs = <<FirstResult>>
        /\ (Pending(pre) /\ FirstResult # NilErr) =>
              /\ Pending(err)
              /\ err[1].kind = "join"
              /\ Contains(ErrorText(err[1]), ErrorText(pre[1]))
              /\ Contains(ErrorText(err[1]), ErrorText(FirstResult))

\* TryJoin ran a failing unit on a pending failure with another text
C6_Witness ==
    /\ op = "TryJoin"
    /\ Pending(pre)
    /\ FirstResult # NilErr
    /\ calls = 1
    /\ ~Contains(ErrorText(pre[1]), ErrorText(FirstResult))
    /\ Pending(err)

\* C7: when a failure with text A is pending and TryJoin runs a unit that
\* fails with text B, the text of the resulting failure is B, a newline,
\* then A: the newest failure comes first.
C7_JoinNewestFirst ==
    (op = "TryJoin" /\ Pending(pre) /\ FirstResult # NilErr) =>
        /\ Pending(err)
        /\ ErrorText(err[1]) = ErrorText(FirstResult) \o ErrorText(pre[1])

\* C8: TryJoin on a chain with no pending failure makes Err() return exactly
\* what the unit returned: the nil error when it succeeds, its failure
\* itself, not wrapped in a joined error, when it fails.
C8_JoinOnEmpty ==
    (op = "TryJoin" /\ ~Pending(pre)) =>
        ErrOutcome(err) = FirstResult

\* C9: TryRetry with limit n > 0 on a chain with no pending failure, with a
\* unit that fails on its first k invocations (1 <= k < n) and then
\* succeeds, does not panic, and returns after exactly k + 1 invocations
\* with no failure pending.
C9_RetryUntilSuccess ==
    \A k \in 1..MaxLimit :
        (/\ op = "TryRetry"
         /\ limit > 0
         /\ k < limit
         /\ ~Pending(pre)
         /\ FailsThenSucceeds(fn, k)) =>
            /\ pc # "panicked"
            /\ pc = "ready" => (calls = k + 1 /\ ~Pending(err))

\* C10: TryRetry with limit n > 0 on a chain with no pending failure, with a
\* unit that fails every time, does not panic, and returns after exactly n
\* invocations with a joined failure pending whose text is the n messages,
\* oldest first.
C10_RetryExhausted ==
    (/\ op = "TryRetry"
     /\ limit > 0
     /\ ~Pending(pre)
     /\ FailsFirst(fn, limit)) =>
        /\ pc # "panicked"
        /\ pc = "ready" =>
              /\ calls = limit
              /\ Pending(err)
              /\ ErrorText(err[1]) = TextsInOrder(fn, limit)

\* the two retry methods that take a backoff function
BackoffOps == {"TryRetryBackoff", "TryRetryBackoffIfErr"}

\* C11: TryRetryBackoff and TryRetryBackoffIfErr called with limit <= 0 on a
\* chain with no pending failure invoke neither the unit nor the backoff
\* function, return without a panic, and leave pending the configuration
\* failure "retry backoff attempted with limit less than or equal to zero".
C11_InvalidLimitStored ==
    (op \in BackoffOps /\ limit <= 0 /\ ~Pending(pre)) =>
        /\ pc = "ready"
        /\ events = <<>>
        /\ Pending(err)
        /\ ErrorText(err[1]) = ErrorText(ConfigErr)

\* C12: an Attempt skips its unit only if a failure is pending, that is only
\* if Err() would have returned a non-nil error; so after TryJoin with a
\* succeeding unit on a chain with no pending failure a following Try still
\* invokes its unit.
C12_SkipsOnlyWhenPending ==
    (op \in AttemptFamily /\ pc = "ready" /\ calls = 0) =>
        Pending(pre)

\* C13 as stated: when a failure p is pending and a backoff method is called
\* with limit <= 0, the call is not skipped: the failure pending afterwards
\* combines the configuration failure with p.
C13_InvalidLimitExempt ==
    (op \in BackoffOps /\ limit <= 0 /\ Pending(pre)) =>
        /\ Pending(err)
        /\ Contains(ErrorText(err[1]), ErrorText(ConfigErr))
        /\ Contains(ErrorText(err[1]), ErrorText(pre[1]))

\* C13 as amended: when a failure p is pending and a backoff method is
\* called with limit <= 0, the call is skipped like any other Attempt: it
\* returns at once, p stays pending as it was and no configuration failure
\* is stored.
C13_InvalidLimitSkipped ==
    (op \in BackoffOps /\ limit <= 0 /\ Pending(pre)) =>
        /\ pc = "ready"
        /\ err = pre
        /\ ~Contains(ErrorText(err[1]), ErrorText(ConfigErr))

\* a backoff method was called with limit <= 0 on a pending failure
C13_Witness ==
    /\ op = "TryRetryBackoff"
    /\ limit <= 0
    /\ Pending(pre)
    /\ pc = "ready"
    /\ err = pre

RECURSIVE Alternation(_, _)
\* the events of a backoff loop whose first n invocations returned os:
\* fn(0), backoff(0), fn(1), backoff(1), ..., a backoff after each failure
Alternation(os, n) ==
    IF n = 0 THEN <<>>
    ELSE Alternation(os, n - 1) \o
         (IF os[n] = NilErr
          THEN << <<"fn", n - 1>> >>
          ELSE << <<"fn", n - 1>>, <<"backoff", n - 1>> >>)

\* C14: a backoff method with limit n > 0 on a chain with no pending failure
\* does not panic, invokes its unit, and calls backoff(i) exactly once
\* after every failing invocation i, the last included, and never after a
\* success: the events are fn(0), backoff(0), fn(1), backoff(1), ..., with at
\* most n invocations.
C14_BackoffAfterEveryFailure ==
    (op \in BackoffOps /\ limit > 0 /\ ~Pending(pre)) =>
        /\ pc # "panicked"
        /\ Len(outs) <= limit
        /\ events = Alternation(outs, Len(outs))
        /\ pc = "ready" => calls >= 1

\* the two retry methods that retry without end on a limit <= 0
ForeverOps == {"TryRetry", "TryRetryIfErr"}

\* the unit fails on every invocation
NeverSucceeds(u) == FailsFirst(u, Len(u.seq)) /\ u.rest # NilErr

\* C15: TryRetry and TryRetryIfErr with limit <= 0 on a chain with no pending
\* failure invoke the unit until it succeeds: a call that has returned made
\* exactly k invocations, where the k-th is the unit's first success, and
\* left no failure pending; with a unit that never succeeds the call does
\* not return.
C15_UnboundedRetry ==
    (op \in ForeverOps /\ limit <= 0 /\ ~Pending(pre)) =>
        /\ pc # "panicked"
        /\ pc = "ready" =>
              /\ calls >= 1
              /\ FailsThenSucceeds(fn, calls - 1)
              /\ ~Pending(err)
        /\ NeverSucceeds(fn) => pc = "loop"

\* C16: TryJoin with a succeeding unit on a chain with pending failure p
\* leaves the failure pending as it was: Err() afterwards reports a failure
\* with the text of p, no line added or lost, and the chain still skips
\* later Attempts.
C16_JoinSuccessKeepsFailure ==
    (op = "TryJoin" /\ Pending(pre) /\ FirstResult = NilErr) =>
        /\ calls = 1
        /\ Pending(err)
        /\ ErrorText(err[1]) = ErrorText(pre[1])

\* TryJoin ran a succeeding unit on a pending failure of two lines
C16_Witness ==
    /\ op = "TryJoin"
    /\ Pending(pre)
    /\ FirstResult = NilErr
    /\ calls = 1
    /\ Len(ErrorText(pre[1])) = 2
    /\ Pending(err)

\* the retry methods
RetryOps == ForeverOps \cup BackoffOps

\* C17: Nil clears the pending failure in every reachable state, and the
\* Attempt that follows it invokes its unit; Nil on a chain with no pending
\* failure changes nothing (Err() and the skipping of Attempts are as
\* before), and a second Nil changes nothing after the first.
C17_ResetClears ==
    /\ op = "Nil" =>
          /\ ~Pending(err)
          /\ ~Pending(pre) =>
                /\ ErrOutcome(err) = ErrOutcome(pre)
                /\ (err = <<>>) = (pre = <<>>)
          /\ nilled # <<>> => err = pre
    /\ (nilled # <<>> /\ op \in {"Try", "TryIfErr"}) => calls = 1
    /\ (/\ nilled # <<>>
        /\ op \in RetryOps
        /\ ~(op \in BackoffOps /\ limit <= 0)
        /\ pc # "loop") => calls >= 1

\* C18: TryIfErr on a chain with no pending failure invokes its unit exactly
\* once; if the unit fails with e, errFn is called exactly once, with e, and
\* Err() then returns errFn(e); if the unit succeeds, errFn is not called
\* and no failure becomes pending.
C18_AttemptObserved ==
    (op = "TryIfErr" /\ ~Pending(pre)) =>
        /\ calls = 1
        /\ FirstResult # NilErr =>
              /\ xfs = <<FirstResult>>
              /\ ErrOutcome(err) = ApplyErrFn(errFn, FirstResult)
        /\ FirstResult = NilErr =>
              /\ xfs = <<>>
              /\ ~Pending(err)

RECURSIVE OnlyTransformed(_)
\* the error is made of results of errFn only, with no bare failure of a unit
OnlyTransformed(e) ==
    CASE e.kind = "new"  -> FALSE
      [] e.kind = "join" -> \A k \in 1..Len(e.errs) : OnlyTransformed(e.errs[k])
      [] OTHER           -> TRUE

\* C19: TryRetryIfErr and TryRetryBackoffIfErr with limit > 0 on a chain with
\* no pending failure do not panic, pass the failure of every failing
\* iteration, the first included, to errFn exactly once, and leave pending a
\* failure made of results of errFn only.
C19_EveryFailureTransformed ==
    (/\ op \in {"TryRetryIfErr", "TryRetryBackoffIfErr"}
     /\ limit > 0
     /\ ~Pending(pre)) =>
        /\ pc # "panicked"
        /\ xfs = SelectSeq(outs, LAMBDA r : r # NilErr)
        /\ Pending(err) => OnlyTransformed(err[1])

\* C20: IfErr with a failure p pending calls its function exactly once, with
\* p, and the failure pending becomes its result; with no failure pending,
\* also after a TryJoin whose unit succeeded, the function is not called and
\* the chain is left as it was.
C20_IfFailed ==
    op = "IfErr" =>
        IF Pending(pre)
        THEN /\ xfs = <<pre[1]>>
             /\ ErrOutcome(err) = ApplyErrFn(errFn, pre[1])
        ELSE /\ xfs = <<>>
             /\ err = pre

====
